---- MODULE Spec2Model ----
(***************************************************************************)
(* Model of leaderboards/grade_leaderboard.py: GradeLeaderboardXBlock.     *)
(*                                                                         *)
(* State: the two persisted settings fields (count, graded_target_id),     *)
(* the host's course tree, the outcome of the handler that ran last with   *)
(* the collaborator calls it made, and the position of a running           *)
(* studio_view (root search, tree walk).                                   *)
(***************************************************************************)
EXTENDS Integers, Sequences, FiniteSets, TLC

VARIABLES
    count,              \* self.count (field inherited from LeaderboardXBlock)
    graded_target_id,   \* self.graded_target_id (Reference field)
    course,             \* the host's course tree and this block's place in it
    request,            \* the input of the handler that ran last
    response,           \* how the handler that ran last ended
    calls,              \* collaborator calls made by the handler that ran last
    pc,                 \* "idle", or the position of a running studio_view
    root_block,         \* studio_view: local root_block
    stack,              \* studio_view: pending build_tree invocations
    flat_block_tree     \* studio_view: local flat_block_tree

vars == << count, graded_target_id, course, request, response, calls,
           pc, root_block, stack, flat_block_tree >>

-----------------------------------------------------------------------------
(* Bounds of the model.                                                    *)

\* Blocks in an enumerated course tree, the root included.
MaxBlocks == 4

\* Largest integer magnitude submitted as 'count'.
MaxCount == 3

-----------------------------------------------------------------------------
(* Python values arriving in the JSON body.                                *)

PyNone == [type |-> "NoneType", s |-> ""]
PyStr(s) == [type |-> "str", s |-> s]

\* Python truthiness of a target id: None and "" are falsy.
Truthy(v) == ~(v.type = "NoneType" \/ (v.type = "str" /\ v.s = ""))

\* JSON values of the 'count' key.  A float is num/den; den = 0 encodes the
\* non-finite floats json.loads accepts (num = 0: NaN, num = 1: Infinity).
\* A string is its sequence of characters.
JInt(n) == [type |-> "int", num |-> n, den |-> 1, chars |-> <<>>]
JFloat(n, d) == [type |-> "float", num |-> n, den |-> d, chars |-> <<>>]
JStr(cs) == [type |-> "str", num |-> 0, den |-> 1, chars |-> cs]
JNull == [type |-> "NoneType", num |-> 0, den |-> 1, chars |-> <<>>]
JList == [type |-> "list", num |-> 0, den |-> 1, chars |-> <<>>]

Digits == <<"0", "1", "2", "3", "4", "5", "6", "7", "8", "9">>
IsDigit(c) == \E i \in 1..10 : Digits[i] = c
DigitVal(c) == (CHOOSE i \in 1..10 : Digits[i] = c) - 1
IsSpace(c) == c = " "

RECURSIVE LStrip(_)
LStrip(cs) == IF cs # <<>> /\ IsSpace(Head(cs)) THEN LStrip(Tail(cs)) ELSE cs

RECURSIVE RStrip(_)
RStrip(cs) ==
    IF cs # <<>> /\ IsSpace(cs[Len(cs)])
    THEN RStrip(SubSeq(cs, 1, Len(cs) - 1))
    ELSE cs

RECURSIVE DigitsValue(_, _)
DigitsValue(cs, acc) ==
    IF cs = <<>> THEN acc
    ELSE DigitsValue(Tail(cs), 10 * acc + DigitVal(Head(cs)))

\* A record [exc, val]: what Python's int(v) raises or returns.
IntOk(n) == [exc |-> "none", val |-> n]
IntRaises(e) == [exc |-> e, val |-> 0]

\* int(str): surrounding whitespace stripped, optional sign, then digits only.
IntOfStr(cs) ==
    LET t == RStrip(LStrip(cs))
        signed == t # <<>> /\ Head(t) \in {"+", "-"}
        body == IF signed THEN Tail(t) ELSE t
    IN  IF body = <<>> \/ \E i \in 1..Len(body) : ~IsDigit(body[i])
        THEN IntRaises("ValueError")
        ELSE IF signed /\ Head(t) = "-"
             THEN IntOk(0 - DigitsValue(body, 0))
             ELSE IntOk(DigitsValue(body, 0))

\* int(float): truncation toward zero; NaN raises ValueError, infinity
\* raises OverflowError.
IntOfFloat(n, d) ==
    IF d = 0
    THEN IF n = 0 THEN IntRaises("ValueError") ELSE IntRaises("OverflowError")
    ELSE IF n >= 0 THEN IntOk(n \div d) ELSE IntOk(0 - ((0 - n) \div d))

\* Python's builtin int() on a JSON value.
PyInt(v) ==
    CASE v.type = "int" -> IntOk(v.num)
      [] v.type = "float" -> IntOfFloat(v.num, v.den)
      [] v.type = "str" -> IntOfStr(v.chars)
      [] OTHER -> IntRaises("TypeError")

-----------------------------------------------------------------------------
(* Program constants.                                                      *)

\* LeaderboardXBlock.count.default (declared in leaderboard.py).
CountDefault == 10

\* GradeLeaderboardXBlock.GRADE_SOURCES, in order.
GRADE_SOURCES == << "EdxLmsGradeSource", "MockGradeSource" >>

CountErrorMessage == "'count' must be an integer and greater than 0."

DisplayName == "Grade Leaderboard"

WARNING == "warning"
ERROR == "error"

-----------------------------------------------------------------------------
(* Outcomes and collaborator calls.                                        *)

Returned(h, v) ==
    [handler |-> h, outcome |-> "return", status |-> 200, message |-> "",
     value |-> v]
Raised(h, e, st, msg) ==
    [handler |-> h, outcome |-> e, status |-> st, message |-> msg,
     value |-> <<>>]

Call(fn, src, arg, n, ret) ==
    [fn |-> fn, src |-> src, arg |-> arg, count |-> n, ret |-> ret]

-----------------------------------------------------------------------------
(* studio_submit                                                           *)

\* Mutant: the submitted count is ignored and the default taken.
ParsedCount_DefaultOnly(data) ==
    PyInt(JInt(CountDefault))

\* int(data.get('count', LeaderboardXBlock.count.default))
ParsedCount(data) ==
    PyInt(IF data.has_count THEN data.count ELSE JInt(CountDefault))

\* Mutant: the count > 0 test is missing.
CountRejected_NoSign(r) ==
    r.exc = "ValueError"

\* The try block ends in the except clause: int() raised ValueError, or the
\* handler itself raised it because count > 0 is false.
CountRejected(r) ==
    r.exc = "ValueError" \/ (r.exc = "none" /\ ~(r.val > 0))

\* Mutant: the falsy target is stored as submitted.
TargetToStore_Unconverted(data) ==
    IF data.has_target THEN data.graded_target_id ELSE PyNone

\* data.get('graded_target_id'), with a falsy value replaced by None.
TargetToStore(data) ==
    LET submitted == IF data.has_target THEN data.graded_target_id ELSE PyNone
    IN  IF ~Truthy(submitted) THEN PyNone ELSE submitted

\* Mutant: the target is written before the count is validated.
studio_submit_TargetFirst(data) ==
    /\ pc = "idle"
    /\ request' = [handler |-> "studio_submit", data |-> data]
    /\ calls' = <<>>
    /\ graded_target_id' = TargetToStore(data)
    /\ LET r == ParsedCount(data)
       IN  IF CountRejected(r)
           THEN /\ response' = Raised("studio_submit", "JsonHandlerError",
                                      400, CountErrorMessage)
                /\ UNCHANGED count
           ELSE IF r.exc # "none"
           THEN /\ response' = Raised("studio_submit", r.exc, 500, "")
                /\ UNCHANGED count
           ELSE /\ count' = r.val
                /\ response' = Returned("studio_submit", <<>>)
    /\ UNCHANGED << course, pc, root_block, stack, flat_block_tree >>

studio_submit(data) ==
    /\ pc = "idle"
    /\ request' = [handler |-> "studio_submit", data |-> data]
    /\ calls' = <<>>
    /\ LET r == ParsedCount(data)
       IN  IF CountRejected(r)
           THEN /\ response' = Raised("studio_submit", "JsonHandlerError",
                                      400, CountErrorMessage)
                /\ UNCHANGED << count, graded_target_id >>
           ELSE IF r.exc # "none"
           THEN \* an exception the except clause does not name propagates
                /\ response' = Raised("studio_submit", r.exc, 500, "")
                /\ UNCHANGED << count, graded_target_id >>
           ELSE /\ count' = r.val
                /\ graded_target_id' = TargetToStore(data)
                /\ response' = Returned("studio_submit", <<>>)
    /\ UNCHANGED << course, pc, root_block, stack, flat_block_tree >>

-----------------------------------------------------------------------------
(* validate                                                                *)

Message(level, text) == [type |-> level, text |-> text]

\* Mutant: the elif tests get_block's result without the "not".
ValidationAdded_NoNot(target, found) ==
    IF ~Truthy(target)
    THEN << Message(WARNING,
            "A graded activity must be chosen as a basis for the leaderboard.") >>
    ELSE IF found
    THEN << Message(ERROR, "The graded activity specified could not be found.") >>
    ELSE <<>>

\* The messages validate adds to the parent's result; found is what
\* runtime.get_block returns for the target (consulted only by the elif).
ValidationAdded(target, found) ==
    IF ~Truthy(target)
    THEN << Message(WARNING,
            "A graded activity must be chosen as a basis for the leaderboard.") >>
    ELSE IF ~found
    THEN << Message(ERROR, "The graded activity specified could not be found.") >>
    ELSE <<>>

ValidateCalls(target, found) ==
    << Call("runtime.service", "i18n", PyNone, 0, TRUE) >>
    \o (IF ~Truthy(target) THEN <<>>
        ELSE << Call("runtime.get_block", "", target, 0, found) >>)

validate(parent, found) ==
    /\ pc = "idle"
    /\ request' = [handler |-> "validate", parent |-> parent]
    /\ calls' = ValidateCalls(graded_target_id, found)
    /\ response' = Returned("validate",
                            parent \o ValidationAdded(graded_target_id, found))
    /\ UNCHANGED << count, graded_target_id, course, pc, root_block, stack,
                    flat_block_tree >>

-----------------------------------------------------------------------------
(* get_scores                                                              *)

\* What grade_source.get_grades(target, n) of source src returns.
Grades(src, target, n) == [source |-> src, target |-> target, count |-> n]

\* Mutant: the first source is used without regard to is_supported().
ScanSources_Unchecked(i, supported, target, n, acc) ==
    LET src == GRADE_SOURCES[i]
    IN  [calls |-> << Call("__init__", src, PyNone, 0, TRUE),
                      Call("is_supported", src, PyNone, 0, src \in supported),
                      Call("get_grades", src, target, n, TRUE) >>,
         response |-> Returned("get_scores", Grades(src, target, n))]

\* The for loop over GRADE_SOURCES from position i on; supported is the set
\* of sources whose is_supported() answers true, acc the calls made so far.
RECURSIVE ScanSources(_, _, _, _, _)
ScanSources(i, supported, target, n, acc) ==
    IF i > Len(GRADE_SOURCES)
    THEN [calls |-> acc,
          response |-> Raised("get_scores", "RuntimeError", 500,
                              "No grade sources available.")]
    ELSE LET src == GRADE_SOURCES[i]
             acc1 == acc \o << Call("__init__", src, PyNone, 0, TRUE),
                               Call("is_supported", src, PyNone, 0,
                                    src \in supported) >>
         IN  IF src \in supported
             THEN [calls |-> Append(acc1, Call("get_grades", src, target, n,
                                               TRUE)),
                   response |-> Returned("get_scores", Grades(src, target, n))]
             ELSE ScanSources(i + 1, supported, target, n, acc1)

\* Mutant: the test for a missing target is left out.
get_scores_NoTargetCheck(supported) ==
    /\ pc = "idle"
    /\ request' = [handler |-> "get_scores", supported |-> supported]
    /\ LET r == ScanSources(1, supported, graded_target_id, count, <<>>)
       IN  /\ calls' = r.calls
           /\ response' = r.response
    /\ UNCHANGED << count, graded_target_id, course, pc, root_block, stack,
                    flat_block_tree >>

get_scores(supported) ==
    /\ pc = "idle"
    /\ request' = [handler |-> "get_scores", supported |-> supported]
    /\ IF ~Truthy(graded_target_id)
       THEN /\ calls' = <<>>
            /\ response' = Raised("get_scores", "RuntimeError", 500,
                                  "graded_target_id not set.")
       ELSE LET r == ScanSources(1, supported, graded_target_id, count, <<>>)
            IN  /\ calls' = r.calls
                /\ response' = r.response
    /\ UNCHANGED << count, graded_target_id, course, pc, root_block, stack,
                    flat_block_tree >>

-----------------------------------------------------------------------------
(* author_view                                                             *)

\* found: runtime.get_block resolves the target; named: the resolved block
\* has a display_name attribute.
author_view(found, named) ==
    /\ pc = "idle"
    /\ request' = [handler |-> "author_view", found |-> found, named |-> named]
    /\ calls' = IF Truthy(graded_target_id)
                THEN << Call("runtime.get_block", "", graded_target_id, 0,
                             found) >>
                ELSE <<>>
    /\ LET graded_target == Truthy(graded_target_id) /\ found
           graded_target_name ==
               IF graded_target /\ named
               THEN PyStr("display name of the target")
               ELSE graded_target_id
       IN  response' = Returned("author_view",
               [graded_target_id |-> graded_target_id,
                graded_target_name |-> graded_target_name,
                display_name |-> DisplayName,
                count |-> count])
    /\ UNCHANGED << count, graded_target_id, course, pc, root_block, stack,
                    flat_block_tree >>

-----------------------------------------------------------------------------
(* The host's course tree and usage keys.                                  *)

NoBranch == "<none>"

\* A usage key.  kind "locator" is an opaque key with for_branch and
\* for_version; kind "str" is a plain identifier without them.
UsageKey(kind, blk, branch, version) ==
    [kind |-> kind, blk |-> blk, branch |-> branch, version |-> version]

for_branch(key, branch) == [key EXCEPT !.branch = branch]
for_version(key, version) == [key EXCEPT !.version = version]

normalize_id(key) ==
    LET k1 == IF key.kind = "locator" THEN for_branch(key, NoBranch) ELSE key
    IN  IF k1.kind = "locator" THEN for_version(k1, NoBranch) ELSE k1

\* The forms in which the host hands out keys.
PlainForm == [kind |-> "str", branch |-> NoBranch, version |-> NoBranch]
LocatorForm == [kind |-> "locator", branch |-> NoBranch, version |-> NoBranch]
VersionedForm == [kind |-> "locator", branch |-> "draft-branch",
                  version |-> "v1"]

KeyOf(form, blk) == UsageKey(form.kind, blk, form.branch, form.version)

\* block.scope_ids.usage_id of a block reached through runtime.get_block
usage_id(c, b) == KeyOf(c.tree_form, b)

\* self.scope_ids.usage_id
OwnUsageId(c) == KeyOf(c.own_form, c.self)

\* The set S of integers as an ascending sequence.
RECURSIVE Ascending(_)
Ascending(S) ==
    IF S = {} THEN <<>>
    ELSE LET m == CHOOSE x \in S : \A y \in S : x <= y
         IN  << m >> \o Ascending(S \ {m})

Reverse(q) == [i \in 1..Len(q) |-> q[Len(q) + 1 - i]]

\* block.children, in declared order
Children(c, b) ==
    LET asc == Ascending({x \in 1..c.n : c.parent[x] = b})
    IN  IF c.descending THEN Reverse(asc) ELSE asc

has_children(c, b) == Children(c, b) # <<>>
has_dynamic_children(c, b) == b \in c.dynamic
has_score(c, b) == b \in c.has_score

\* block_name of build_tree: the display name, or "type (usage id)".
BlockName(c, b) ==
    IF b \in c.named
    THEN [display_name |-> TRUE, type |-> "", id |-> usage_id(c, b)]
    ELSE [display_name |-> FALSE, type |-> c.block_type[b],
          id |-> usage_id(c, b)]

\* The first scenario of workbench_scenarios: a vertical holding a problem
\* (with three children) and the leaderboard.
WorkbenchCourse ==
    [n |-> 6,
     parent |-> << 0, 1, 2, 2, 2, 1 >>,
     block_type |-> << "vertical_demo", "problem_demo", "html_demo",
                       "textinput_demo", "equality_demo",
                       "grade_leaderboard" >>,
     descending |-> FALSE,
     has_score |-> {2},
     dynamic |-> {},
     named |-> {6},
     self |-> 6,
     own_form |-> PlainForm,
     tree_form |-> PlainForm]

-----------------------------------------------------------------------------
(* studio_view                                                             *)

own_id == normalize_id(OwnUsageId(course))

Frame(b, ancestors) == [block |-> b, ancestors |-> ancestors]

\* One build_tree invocation per child, the first child on top.
ChildFrames(c, b, ancestors) ==
    LET ch == Children(c, b)
    IN  [i \in 1..Len(ch) |-> Frame(ch[i], ancestors)]

\* Mutant: only the immediate parent's entry is marked.
MarkAncestors_ParentOnly(tree, eligible, ancestors) ==
    IF eligible /\ ancestors # <<>>
       /\ ~tree[ancestors[Len(ancestors)]].eligible
    THEN [tree EXCEPT ![ancestors[Len(ancestors)]].eligible = TRUE]
    ELSE tree

\* Lines 114-119: a scored block whose parent entry is not yet eligible
\* marks every ancestor entry.  Entries are shared objects, so the marks
\* show in the flat list; ancestors holds their positions in it.
MarkAncestors(tree, eligible, ancestors) ==
    IF eligible /\ ancestors # <<>>
       /\ ~tree[ancestors[Len(ancestors)]].eligible
    THEN [i \in 1..Len(tree) |->
            IF \E k \in 1..Len(ancestors) : ancestors[k] = i
            THEN [tree[i] EXCEPT !.eligible = TRUE]
            ELSE tree[i]]
    ELSE tree

\* Lines 120-127
NewEntry(c, b, ancestors, own) ==
    LET block_id == normalize_id(usage_id(c, b))
    IN  [depth |-> Len(ancestors),
         id |-> block_id,
         name |-> BlockName(c, b),
         eligible |-> has_score(c, b),
         is_this |-> (block_id = own)]

\* Mutant: has_dynamic_children is not consulted.
Descends_IgnoresDynamic(c, b) == has_children(c, b)

\* Line 129: the children are walked
Descends(c, b) == has_children(c, b) /\ ~has_dynamic_children(c, b)

\* Lines 102-104, 136
StudioViewCall ==
    /\ pc = "idle"
    /\ pc' = "root"
    /\ request' = [handler |-> "studio_view"]
    /\ response' = Raised("studio_view", "running", 0, "")
    /\ calls' = <<>>
    /\ root_block' = course.self
    /\ flat_block_tree' = <<>>
    /\ stack' = <<>>
    /\ UNCHANGED << count, graded_target_id, course >>

\* Lines 137-138: one iteration of the while loop
ClimbToParent ==
    /\ pc = "root"
    /\ course.parent[root_block] # 0
    /\ root_block' = course.parent[root_block]
    /\ UNCHANGED << count, graded_target_id, course, request, response, calls,
                    pc, stack, flat_block_tree >>

\* Lines 139-140: the loop over the root's children starts
WalkFromRoot ==
    /\ pc = "root"
    /\ course.parent[root_block] = 0
    /\ pc' = "tree"
    /\ stack' = ChildFrames(course, root_block, <<>>)
    /\ UNCHANGED << count, graded_target_id, course, request, response, calls,
                    root_block, flat_block_tree >>

\* Lines 106-131: the build_tree invocation on top of the stack runs up to
\* its recursive calls, which become the new top of the stack.
build_tree ==
    /\ pc = "tree"
    /\ stack # <<>>
    /\ LET block == Head(stack).block
           ancestors == Head(stack).ancestors
           eligible == has_score(course, block)
           marked == MarkAncestors(flat_block_tree, eligible, ancestors)
           new_entry == NewEntry(course, block, ancestors, own_id)
           position == Len(flat_block_tree) + 1
       IN  /\ flat_block_tree' = Append(marked, new_entry)
           /\ stack' = (IF Descends(course, block)
                        THEN ChildFrames(course, block,
                                         Append(ancestors, position))
                        ELSE <<>>) \o Tail(stack)
    /\ UNCHANGED << count, graded_target_id, course, request, response, calls,
                    pc, root_block >>

\* Lines 142-151
StudioViewReturn ==
    /\ pc = "tree"
    /\ stack = <<>>
    /\ pc' = "idle"
    /\ response' = Returned("studio_view",
                            [count |-> count,
                             graded_target_id |-> graded_target_id,
                             block_tree |-> flat_block_tree])
    /\ UNCHANGED << count, graded_target_id, course, request, calls,
                    root_block, stack, flat_block_tree >>

studio_view == StudioViewCall \/ ClimbToParent \/ WalkFromRoot \/ build_tree
               \/ StudioViewReturn

-----------------------------------------------------------------------------
(* Inputs and initial states.                                              *)

TargetIds == { PyNone, PyStr(""), PyStr("block-a"), PyStr("block-b") }

CountValues ==
    { JInt(n) : n \in (0 - 1)..MaxCount }
    \cup { JFloat(5, 2), JFloat(1, 2), JFloat(0 - 1, 2), JFloat(2, 1),
           JFloat(0, 0), JFloat(1, 0) }
    \cup { JStr(<<"3">>), JStr(<<"0">>), JStr(<<"-", "1">>),
           JStr(<<" ", "2", " ">>), JStr(<<"2", ".", "5">>),
           JStr(<<"a", "b", "c">>), JStr(<<>>) }
    \cup { JNull, JList }

SubmitData ==
    { [has_count |-> TRUE, count |-> v, has_target |-> TRUE,
       graded_target_id |-> t] : v \in CountValues, t \in TargetIds }
    \cup { [has_count |-> FALSE, count |-> JNull, has_target |-> TRUE,
            graded_target_id |-> t] : t \in TargetIds }
    \cup { [has_count |-> TRUE, count |-> v, has_target |-> FALSE,
            graded_target_id |-> PyNone] : v \in CountValues }
    \cup { [has_count |-> FALSE, count |-> JNull, has_target |-> FALSE,
            graded_target_id |-> PyNone] }

\* Results of the parent class's validate.
ParentValidations ==
    { <<>>,
      << Message(WARNING, "parent warning") >>,
      << Message(ERROR, "parent error") >>,
      << Message(WARNING, "parent warning"), Message(ERROR, "parent error") >> }

Sources == { GRADE_SOURCES[i] : i \in 1..Len(GRADE_SOURCES) }

NoRequest == [handler |-> "none"]
NoResponse == Raised("none", "none", 0, "")

InitCommon ==
    /\ request = NoRequest
    /\ response = NoResponse
    /\ calls = <<>>
    /\ pc = "idle"
    /\ root_block = 0
    /\ stack = <<>>
    /\ flat_block_tree = <<>>

Init ==
    /\ count \in { 1, CountDefault }
    /\ graded_target_id \in TargetIds
    /\ course = WorkbenchCourse
    /\ InitCommon

Next ==
    \/ \E data \in SubmitData : studio_submit(data)
    \/ \E parent \in ParentValidations, found \in BOOLEAN :
          validate(parent, found)
    \/ \E supported \in SUBSET Sources : get_scores(supported)
    \/ \E found \in BOOLEAN, named \in BOOLEAN : author_view(found, named)
    \/ studio_view

Spec == Init /\ [][Next]_vars

\* A block created with a count greater than 0 and a target that is null or
\* a non-empty id.
InitValid ==
    /\ Init
    /\ graded_target_id # PyStr("")

SpecValid == InitValid /\ [][Next]_vars

-----------------------------------------------------------------------------
(* Course trees for the tree walk.                                         *)

\* parent[1] = 0 (the root), every other block hangs below an earlier one.
ParentMaps(n) ==
    { p \in [1..n -> 0..(n - 1)] :
        /\ p[1] = 0
        /\ \A b \in 2..n : p[b] >= 1 /\ p[b] < b }

\* The key forms of this block and of the blocks the runtime returns:
\* plain identifiers, or locators that differ in branch and version.
FormPairs ==
    { << PlainForm, PlainForm >>,
      << VersionedForm, LocatorForm >> }

\* The trees over parent map p.  The leaderboard has no children: it is
\* block n, a leaf below the root in every parent map.  The root's has_score
\* is never read; at most one block has dynamic children.
CoursesOver(n, p) ==
    { [n |-> n,
       parent |-> p,
       block_type |-> [b \in 1..n |-> "block"],
       descending |-> d,
       has_score |-> sc,
       dynamic |-> dy,
       named |-> { b \in 1..n : b % 2 = 0 },
       self |-> me,
       own_form |-> f[1],
       tree_form |-> f[2]] :
      d \in BOOLEAN,
      sc \in SUBSET (2..n),
      dy \in { D \in SUBSET (1..n) : Cardinality(D) <= 1 },
      me \in {n},
      f \in FormPairs }

\* Every tree of 2..MaxBlocks blocks.
Courses ==
    UNION { UNION { CoursesOver(n, p) : p \in ParentMaps(n) } :
            n \in 2..MaxBlocks }

InitTree ==
    /\ count = CountDefault
    /\ graded_target_id = PyNone
    /\ course \in Courses
    /\ InitCommon

NextTree == studio_view

\* A call of studio_view runs to its end: nothing else runs in the request.
TreeSpec == InitTree /\ [][NextTree]_vars /\ WF_vars(studio_view)

-----------------------------------------------------------------------------
(* The course tree as the properties see it.                               *)

RECURSIVE Ancestors(_, _)
Ancestors(c, b) ==
    IF c.parent[b] = 0 THEN {}
    ELSE {c.parent[b]} \cup Ancestors(c, c.parent[b])

RootOf(c, b) == CHOOSE r \in Ancestors(c, b) \cup {b} : c.parent[r] = 0

RECURSIVE Concat(_)
Concat(qs) == IF qs = <<>> THEN <<>> ELSE Head(qs) \o Concat(Tail(qs))

\* Pre-order listing of the blocks below b, children in declared order,
\* nothing below a block with dynamic children.
RECURSIVE PreorderBelow(_, _, _)
PreorderBelow(c, b, depth) ==
    LET ch == Children(c, b)
    IN  Concat([i \in 1..Len(ch) |->
            << [blk |-> ch[i], depth |-> depth] >>
            \o (IF ch[i] \in c.dynamic THEN <<>>
                ELSE PreorderBelow(c, ch[i], depth + 1))])

StudioViewReturned ==
    response.handler = "studio_view" /\ response.outcome = "return"

block_tree == response.value.block_tree

EntryBlock(e) == e.id.blk

-----------------------------------------------------------------------------
(* Properties of studio_submit.                                            *)

SubmitEnded == response.handler = "studio_submit"
SubmitReturned == SubmitEnded /\ response.outcome = "return"
SubmitRejected ==
    /\ SubmitEnded
    /\ response.outcome = "JsonHandlerError"
    /\ response.status = 400
    /\ response.message = CountErrorMessage

\* A submitted count that is not an integer, or is not positive.
InvalidCount(v) ==
    CASE v.type = "int" -> v.num <= 0
      [] v.type = "float" -> v.den = 0 \/ v.num % v.den # 0 \/ v.num <= 0
      [] v.type = "str" -> PyInt(v).exc # "none" \/ PyInt(v).val <= 0
      [] OTHER -> TRUE

\* A submitted count that is an integer greater than 0, or no count at all.
ValidCount(data) ==
    ~data.has_count \/ (data.count.type = "int" /\ data.count.num > 0)

EmptyTarget(data) ==
    ~data.has_target \/ data.graded_target_id \in { PyNone, PyStr("") }

\* C1: every submission whose count is non-positive or not an integer ends
\* with JsonHandlerError 400 and the count message, never anything else.
C1_InvalidCountRejected ==
    (SubmitEnded /\ request.data.has_count /\ InvalidCount(request.data.count))
        => SubmitRejected

\* C2: an accepted submission with an empty target id (empty string, null or
\* absent) leaves None in graded_target_id, never the empty string.
C2_EmptyTargetStoresNone ==
    (SubmitReturned /\ EmptyTarget(request.data))
        => graded_target_id = PyNone /\ graded_target_id # PyStr("")

C2_Witness ==
    /\ SubmitReturned
    /\ request.data.has_target
    /\ request.data.graded_target_id = PyStr("")
    /\ request.data.has_count
    /\ graded_target_id = PyNone

\* C3: a submission with a valid count returns {} and has written both
\* fields: count is the submitted integer (the default when absent) and
\* graded_target_id the submitted id (None when empty).
C3_ValidSubmitWritesBoth ==
    (SubmitEnded /\ ValidCount(request.data)) =>
        /\ response.outcome = "return"
        /\ response.value = <<>>
        /\ count = (IF request.data.has_count THEN request.data.count.num
                    ELSE CountDefault)
        /\ graded_target_id = (IF EmptyTarget(request.data) THEN PyNone
                               ELSE request.data.graded_target_id)

C3_Witness ==
    /\ SubmitReturned
    /\ request.data.has_count
    /\ request.data.count = JInt(2)
    /\ count = 2
    /\ request.data.graded_target_id = PyStr("block-b")
    /\ graded_target_id = PyStr("block-b")

\* C4: a step of studio_submit that ends in the 400 rejection leaves count
\* and graded_target_id as they were.
C4_RejectionKeepsFields ==
    [][(request'.handler = "studio_submit"
        /\ response'.outcome = "JsonHandlerError"
        /\ response'.status = 400)
       => (count' = count /\ graded_target_id' = graded_target_id)]_vars

C4_Witness ==
    /\ SubmitRejected
    /\ request.data.has_target
    /\ Truthy(request.data.graded_target_id)
    /\ request.data.graded_target_id # graded_target_id
    /\ Truthy(graded_target_id)

-----------------------------------------------------------------------------
(* Properties of validate.                                                 *)

ValidateEnded == response.handler = "validate"

GetBlockCalls == { i \in 1..Len(calls) : calls[i].fn = "runtime.get_block" }

\* The messages after the parent's
AddedMessages ==
    SubSeq(response.value, Len(request.parent) + 1, Len(response.value))

\* C5: on top of the parent's messages validate adds one WARNING when no
\* target is set (and does not call get_block), one ERROR when the target
\* is set and get_block does not resolve it, nothing when it resolves.
C5_ValidateMessages ==
    ValidateEnded =>
        /\ Len(response.value) >= Len(request.parent)
        /\ SubSeq(response.value, 1, Len(request.parent)) = request.parent
        /\ Len(AddedMessages) <= 1
        /\ IF ~Truthy(graded_target_id)
           THEN /\ Len(AddedMessages) = 1
                /\ AddedMessages[1].type = WARNING
                /\ GetBlockCalls = {}
           ELSE /\ Cardinality(GetBlockCalls) = 1
                /\ \A i \in GetBlockCalls :
                      /\ calls[i].arg = graded_target_id
                      /\ IF calls[i].ret
                         THEN AddedMessages = <<>>
                         ELSE /\ Len(AddedMessages) = 1
                              /\ AddedMessages[1].type = ERROR

C5_Witness ==
    /\ ValidateEnded
    /\ Truthy(graded_target_id)
    /\ request.parent # <<>>
    /\ \E i \in GetBlockCalls : ~calls[i].ret
    /\ Len(response.value) = Len(request.parent) + 1
    /\ response.value[Len(response.value)].type = ERROR

-----------------------------------------------------------------------------
(* Properties of get_scores.                                               *)

ScoresEnded == response.handler = "get_scores"

SourceIndex(src) == CHOOSE i \in 1..Len(GRADE_SOURCES) : GRADE_SOURCES[i] = src

FirstSupported(supported) ==
    CHOOSE i \in 1..Len(GRADE_SOURCES) :
        /\ GRADE_SOURCES[i] \in supported
        /\ \A j \in 1..(i - 1) : GRADE_SOURCES[j] \notin supported

GetGradesCalls == { i \in 1..Len(calls) : calls[i].fn = "get_grades" }

\* C6: with a target set and some source supported, get_scores returns
\* get_grades(graded_target_id, count) of the first supported source of
\* GRADE_SOURCES, calls get_grades on that source only, and touches no
\* source after it.
C6_FirstSupportedSourceWins ==
    (ScoresEnded /\ Truthy(graded_target_id) /\ request.supported # {}) =>
        LET k == FirstSupported(request.supported)
        IN  /\ response.outcome = "return"
            /\ response.value = Grades(GRADE_SOURCES[k], graded_target_id, count)
            /\ Cardinality(GetGradesCalls) = 1
            /\ \A i \in GetGradesCalls :
                  /\ calls[i].src = GRADE_SOURCES[k]
                  /\ calls[i].arg = graded_target_id
                  /\ calls[i].count = count
            /\ \A i \in 1..Len(calls) : SourceIndex(calls[i].src) <= k
            /\ \A j \in 1..k : \E i \in 1..Len(calls) :
                  calls[i].fn = "is_supported" /\ calls[i].src = GRADE_SOURCES[j]

C6_Witness ==
    /\ ScoresEnded
    /\ Truthy(graded_target_id)
    /\ request.supported = Sources
    /\ response.outcome = "return"
    /\ response.value.source = GRADE_SOURCES[1]
    /\ \A i \in 1..Len(calls) : calls[i].src = GRADE_SOURCES[1]

\* C7: get_scores raises RuntimeError exactly when no target is set (then
\* before any source is built or asked) or when no source is supported;
\* get_grades is not called then; and get_scores changes no field.
C7_State ==
    /\ response.outcome \in { "return", "RuntimeError" }
    /\ response.outcome = "RuntimeError"
          <=> (~Truthy(graded_target_id) \/ request.supported = {})
    /\ ~Truthy(graded_target_id) => calls = <<>>
    /\ response.outcome = "RuntimeError" => GetGradesCalls = {}

C7_RuntimeErrorCases ==
    [][request'.handler = "get_scores"
       => /\ C7_State'
          /\ count' = count
          /\ graded_target_id' = graded_target_id]_vars

C7_Witness ==
    /\ ScoresEnded
    /\ Truthy(graded_target_id)
    /\ request.supported = {}
    /\ response.outcome = "RuntimeError"
    /\ response.message = "No grade sources available."
    /\ Len(calls) = 2 * Len(GRADE_SOURCES)

-----------------------------------------------------------------------------
(* Properties of the stored settings.                                      *)

\* C10: from a block with a positive count and a target that is None or a
\* non-empty id, count stays an integer greater than 0 and graded_target_id
\* is never the empty string; only studio_submit changes either field.
C10_SettingsStayValid ==
    /\ [](count \in Int /\ count > 0 /\ graded_target_id # PyStr(""))
    /\ [][request'.handler # "studio_submit"
          => (count' = count /\ graded_target_id' = graded_target_id)]_vars

C10_Witness ==
    /\ SubmitRejected
    /\ count = 2
    /\ graded_target_id = PyStr("block-a")
    /\ request.data.has_target
    /\ request.data.graded_target_id = PyStr("")

-----------------------------------------------------------------------------
(* Properties of the block tree built by studio_view.                      *)

Listed == { EntryBlock(block_tree[i]) : i \in 1..Len(block_tree) }

\* C8: an entry is eligible exactly when its block, or a listed descendant
\* of it, has a score; so the eligible entries are closed under ancestors.
C8_EligibleIffScoredBelow ==
    StudioViewReturned =>
        /\ \A i \in 1..Len(block_tree) :
              block_tree[i].eligible <=>
                  \/ has_score(course, EntryBlock(block_tree[i]))
                  \/ \E d \in Listed :
                        /\ EntryBlock(block_tree[i]) \in Ancestors(course, d)
                        /\ has_score(course, d)
        /\ \A i, j \in 1..Len(block_tree) :
              (/\ EntryBlock(block_tree[j])
                      \in Ancestors(course, EntryBlock(block_tree[i]))
               /\ block_tree[i].eligible)
                  => block_tree[j].eligible

\* A scored block two levels down whose parent is scored too (the parent's
\* entry is eligible already when the block is reached) below an unscored
\* block.
C8_Witness ==
    /\ StudioViewReturned
    /\ \E i, j, k \in 1..Len(block_tree) :
          /\ block_tree[i].depth = 0
          /\ course.parent[EntryBlock(block_tree[j])] = EntryBlock(block_tree[i])
          /\ course.parent[EntryBlock(block_tree[k])] = EntryBlock(block_tree[j])
          /\ ~has_score(course, EntryBlock(block_tree[i]))
          /\ has_score(course, EntryBlock(block_tree[j]))
          /\ has_score(course, EntryBlock(block_tree[k]))
          /\ block_tree[i].eligible

\* The same block, whatever the branch and version of the two keys.
SameBlock(k1, k2) == k1.kind = k2.kind /\ k1.blk = k2.blk

TheRoot == RootOf(course, course.self)

\* block_tree lists exactly the blocks of expected, in that order, and each
\* entry has the depth and the is_this the claim gives it.
ListingIs(expected) ==
    /\ Len(block_tree) = Len(expected)
    /\ \A i \in 1..Len(block_tree) :
          /\ EntryBlock(block_tree[i]) = expected[i].blk
          /\ block_tree[i].depth = expected[i].depth
          /\ block_tree[i].depth
                = Cardinality(Ancestors(course, EntryBlock(block_tree[i]))
                              \ {TheRoot})
          /\ block_tree[i].is_this
                <=> SameBlock(block_tree[i].id, OwnUsageId(course))
    /\ TheRoot \notin Listed
    /\ \A i, j \in 1..Len(block_tree) :
          EntryBlock(block_tree[i]) = EntryBlock(block_tree[j]) => i = j

\* The claim as made: the children of every block with dynamic children,
\* the root included, are left out.
C9_ListingSkipsAllDynamic ==
    StudioViewReturned =>
        ListingIs(IF TheRoot \in course.dynamic THEN <<>>
                  ELSE PreorderBelow(course, TheRoot, 0))

\* C9: studio_view ends, and block_tree is the pre-order listing of the
\* blocks below the root: the root's children at depth 0 (listed also when
\* the root has dynamic children), nothing below any other block with
\* dynamic children, each block once, is_this on this block's entry.
C9_PreorderListing ==
    /\ [](StudioViewReturned => ListingIs(PreorderBelow(course, TheRoot, 0)))
    /\ (pc = "root") ~> StudioViewReturned

C9_Witness ==
    /\ StudioViewReturned
    /\ course.descending
    /\ course.own_form # course.tree_form
    /\ \E i \in 1..Len(block_tree) : block_tree[i].is_this
    /\ Len(block_tree) >= 2
    /\ \E b \in course.dynamic :
          /\ b \in Listed
          /\ has_children(course, b)
          /\ \A x \in 1..course.n : course.parent[x] = b => x \notin Listed

====
